---- MODULE Spec2Model ----
(***************************************************************************)
(* Model of the three environments of envs/: the Discrete Stochastic       *)
(* Decision Process (dsdp.py), GridWorld (gridworld.py) and PointMaze      *)
(* (point_maze.py).  Every environment is an object with reset() and       *)
(* step(action); the random draws of the code are inputs of the actions.   *)
(*                                                                         *)
(* Number representation                                                   *)
(*   - DSDP rewards are in hundredths: 1.0 is 100, 1.0/100.0 is 1.         *)
(*   - DSDP rolls (random.random(), a float in [0,1)) are in hundredths.   *)
(*   - PointMaze rewards are in tenths (-0.1 is -1, -0.1 + 100.0 is 999).  *)
(*   - PointMaze lengths (in cells) and headings (in radians) are binary   *)
(*     fixed-point numbers that hold every float64 and float32 value of    *)
(*     the computation exactly; the locals of a step are rounded as        *)
(*     float64 and self.state as float32, to nearest, ties to even.        *)
(***************************************************************************)
EXTENDS Integers, Sequences, FiniteSets, TLC

VARIABLES
    \* ---- DiscreteStochasticDecisionProcess (dsdp.py)
    current_state,      \* self.current_state
    visited_last,       \* self.visited_last
    d_in,               \* inputs of the last call: [action, roll]
    d_ret,              \* outcome of the last call: [kind, obs, reward, done]
    d_ever5,            \* history: current_state was 5 since the last reset
    d_cleared,          \* history: what the last call, if a reset, cleared
    \* ---- GridWorld (gridworld.py)
    ROOM_SIZE,          \* self.ROOM_SIZE (constructor argument)
    ROOM_COUNT,         \* self.ROOM_COUNT (constructor argument)
    player,             \* self.player
    key,                \* self.key
    car,                \* self.car
    doors,              \* self.doors: cell -> list of cells
    door_pairing,       \* self.door_pairing: list of cells
    visited_key,        \* self.visited_key
    steps,              \* self.steps
    g_move,             \* locals of the last step after the movement block
    g_ret,              \* outcome of the last call: [kind, obs, reward, done]
    g_cleared,          \* history: what the last call, if a reset, cleared
    \* ---- PointMazeEnv (point_maze.py)
    state,              \* self.state: [x, y, theta]
    episode_steps,      \* self.episode_steps
    steps_beyond_done,  \* self.steps_beyond_done: <<>> is None, <<n>> is n
    m_local,            \* locals of the last step
    m_ret,              \* outcome of the last call: [kind, obs, reward, done]
    m_ever_goal,        \* history: a step since the last reset ended in the goal
    m_cleared           \* history: what the last call, if a reset, cleared

dvars == <<current_state, visited_last, d_in, d_ret, d_ever5, d_cleared>>
gvars == <<ROOM_SIZE, ROOM_COUNT, player, key, car, doors, door_pairing,
           visited_key, steps, g_move, g_ret, g_cleared>>
mvars == <<state, episode_steps, steps_beyond_done, m_local, m_ret,
           m_ever_goal, m_cleared>>
vars == <<dvars, gvars, mvars>>

(***************************************************************************)
(* Bounds of the model.                                                    *)
(***************************************************************************)
\* DSDP: step is not called any more once current_state is this far below 0.
MaxOvershoot == 8
\* GridWorld: at most this many step calls between two resets.
MaxGridSteps == 10
\* GridWorld on the grids of RoomConfigs: at most this many step calls.
MaxRoomSteps == 3
\* GridWorld: reset draws the key and car coordinates below this bound.
MaxDraw == 2
\* GridWorld on the grids of SolveConfigs: at most this many step calls.
MaxSolveSteps == 3
\* PointMaze: at most this many step calls between two resets.
MaxEpisodeSteps == 4
\* PointMaze on the way to the goal: at most this many step calls between
\* two resets.
MaxGoalSteps == 19

Min(a, b) == IF a < b THEN a ELSE b

(***************************************************************************)
(* Discrete Stochastic Decision Process                                    *)
(***************************************************************************)
TOTAL_STATES == 6

\* random.random() in hundredths; 50 is a roll of exactly 0.5.
Rolls == {0, 25, 50, 51, 99}

\* buffer[n] = 1.0 on a buffer of TOTAL_STATES zeros: Python accepts the
\* indices -TOTAL_STATES .. TOTAL_STATES-1 and raises IndexError otherwise.
IndexOK(n) == n >= -TOTAL_STATES /\ n < TOTAL_STATES

\* A negative index n addresses slot n + TOTAL_STATES.
one_hot(n) ==
    [i \in 1..TOTAL_STATES |-> IF i - 1 = n % TOTAL_STATES THEN 1 ELSE 0]

\* The new current_state of step(action), lines 27-34.
DMoveMutTie(s, action, roll) ==
    IF action = 0 THEN s - 1
    ELSE IF roll >= 50 /\ s # 5 THEN s + 1
    ELSE s - 1

DMove(s, action, roll) ==
    IF action = 0 THEN s - 1
    ELSE IF roll > 50 /\ s # 5 THEN s + 1
    ELSE s - 1

\* The new visited_last of step, lines 36-37.
DVisited(v, s) == v \/ s = 5

\* The reward of a step that ends in state s, lines 38-40.
DRewardMutNoFlag(s, v) == IF s = 0 THEN 100 ELSE 0

DReward(s, v) == IF s = 0 THEN (IF v THEN 100 ELSE 1) ELSE 0

\* What step returns, or the IndexError one_hot raises.
DReturn(s, v) ==
    IF IndexOK(s)
    THEN [kind |-> "step", obs |-> one_hot(s), reward |-> DReward(s, v),
          done |-> (s = 0)]
    ELSE [kind |-> "raised", obs |-> <<>>, reward |-> 0, done |-> FALSE]

\* The episode a reset call ends: whether visited_last was set and whether
\* step had been called after done (current_state below 0).
DCleared(s, v) == [visited_last |-> v, after_done |-> s < 0]

DConstruct ==
    /\ current_state = 1
    /\ visited_last = FALSE
    /\ d_in = [action |-> -1, roll |-> -1]
    /\ d_ret = [kind |-> "reset", obs |-> one_hot(1), reward |-> 0,
                done |-> FALSE]
    /\ d_ever5 = FALSE
    /\ d_cleared = DCleared(1, FALSE)

DResetMutKeepFlag ==
    /\ current_state' = 1
    /\ visited_last' = visited_last
    /\ d_in' = [action |-> -1, roll |-> -1]
    /\ d_ret' = [kind |-> "reset", obs |-> one_hot(1), reward |-> 0,
                 done |-> FALSE]
    /\ d_ever5' = FALSE
    /\ d_cleared' = DCleared(current_state, visited_last)
    /\ UNCHANGED <<gvars, mvars>>

DReset ==
    /\ current_state' = 1
    /\ visited_last' = FALSE
    /\ d_in' = [action |-> -1, roll |-> -1]
    /\ d_ret' = [kind |-> "reset", obs |-> one_hot(1), reward |-> 0,
                 done |-> FALSE]
    /\ d_ever5' = FALSE
    /\ d_cleared' = DCleared(current_state, visited_last)
    /\ UNCHANGED <<gvars, mvars>>

\* step(action); the roll is drawn only when action is not 0 (roll -1: none).
DStep ==
    /\ current_state > -MaxOvershoot
    /\ \E action \in {0, 1} :
       \E roll \in (IF action = 0 THEN {-1} ELSE Rolls) :
          LET s == DMove(current_state, action, roll)
              v == DVisited(visited_last, s)
          IN /\ current_state' = s
             /\ visited_last' = v
             /\ d_in' = [action |-> action, roll |-> roll]
             /\ d_ret' = DReturn(s, v)
             /\ d_ever5' = (d_ever5 \/ s = 5)
             /\ d_cleared' = DCleared(1, FALSE)
    /\ UNCHANGED <<gvars, mvars>>

(***************************************************************************)
(* GridWorld                                                               *)
(***************************************************************************)
\* Cells per side of the grid, ROOM_SIZE * ROOM_COUNT.
Side == ROOM_SIZE * ROOM_COUNT

num_positions == ROOM_SIZE * ROOM_SIZE * ROOM_COUNT * ROOM_COUNT

MAX_STEPS == num_positions * 2

coord_to_pos(x, y) == x + ROOM_COUNT * ROOM_SIZE * y

pos_to_coord(pos) ==
    <<pos % (ROOM_SIZE * ROOM_COUNT), pos \div (ROOM_SIZE * ROOM_COUNT)>>

actions_to_move(a) ==
    CASE a = 0 -> <<0, -1>>
      [] a = 1 -> <<0, 1>>
      [] a = 2 -> <<-1, 0>>
      [] a = 3 -> <<1, 0>>

\* v in list
InList(v, list) == \E i \in 1..Len(list) : list[i] = v

\* Lines 63-68 (and 78-83): create the two keys if absent, then append each
\* endpoint to the other's list.
DoorAddMutOneWay(d, a, b) ==
    LET d1 == IF a \in DOMAIN d THEN d ELSE d @@ (a :> <<>>)
        d2 == IF b \in DOMAIN d1 THEN d1 ELSE d1 @@ (b :> <<>>)
    IN [d2 EXCEPT ![a] = Append(@, b)]

DoorAdd(d, a, b) ==
    LET d1 == IF a \in DOMAIN d THEN d ELSE d @@ (a :> <<>>)
        d2 == IF b \in DOMAIN d1 THEN d1 ELSE d1 @@ (b :> <<>>)
        d3 == [d2 EXCEPT ![a] = Append(@, b)]
    IN [d3 EXCEPT ![b] = Append(@, a)]

\* One pass of the inner loop, lines 60-71, for boundary row hor and room i
\* with drawn offset x.
HorDoor(acc, hor, i, x) ==
    LET x_coord == x + i * ROOM_SIZE
        y_coord == (hor + 1) * ROOM_SIZE
    IN [doors |-> DoorAdd(acc.doors, coord_to_pos(x_coord, y_coord),
                          coord_to_pos(x_coord, y_coord - 1)),
        pairing |-> acc.pairing \o <<coord_to_pos(x_coord, y_coord),
                                     coord_to_pos(x_coord, y_coord - 1)>>]

\* One pass of the inner loop, lines 75-86, for boundary column vert and
\* room i with drawn offset y.
VertDoorMutPlusOne(acc, vert, i, y) ==
    LET x_coord == (vert + 1) * ROOM_SIZE
        y_coord == y + i * ROOM_SIZE
    IN [doors |-> DoorAdd(acc.doors, coord_to_pos(x_coord, y_coord),
                          coord_to_pos(x_coord + 1, y_coord)),
        pairing |-> acc.pairing \o <<coord_to_pos(x_coord, y_coord),
                                     coord_to_pos(x_coord + 1, y_coord)>>]

VertDoor(acc, vert, i, y) ==
    LET x_coord == (vert + 1) * ROOM_SIZE
        y_coord == y + i * ROOM_SIZE
    IN [doors |-> DoorAdd(acc.doors, coord_to_pos(x_coord, y_coord),
                          coord_to_pos(x_coord - 1, y_coord)),
        pairing |-> acc.pairing \o <<coord_to_pos(x_coord, y_coord),
                                     coord_to_pos(x_coord + 1, y_coord)>>]

\* The loop of lines 58-71 from its k-th pass on (pass k is boundary row
\* k \div ROOM_COUNT, room k % ROOM_COUNT); hx[hor+1][i+1] is the drawn offset.
RECURSIVE HorLoop(_, _, _)
HorLoop(acc, k, hx) ==
    IF k >= (ROOM_COUNT - 1) * ROOM_COUNT THEN acc
    ELSE HorLoop(HorDoor(acc, k \div ROOM_COUNT, k % ROOM_COUNT,
                         hx[(k \div ROOM_COUNT) + 1][(k % ROOM_COUNT) + 1]),
                 k + 1, hx)

\* The loop of lines 73-86, likewise.
RECURSIVE VertLoop(_, _, _)
VertLoop(acc, k, vy) ==
    IF k >= (ROOM_COUNT - 1) * ROOM_COUNT THEN acc
    ELSE VertLoop(VertDoor(acc, k \div ROOM_COUNT, k % ROOM_COUNT,
                           vy[(k \div ROOM_COUNT) + 1][(k % ROOM_COUNT) + 1]),
                  k + 1, vy)

\* Lines 55-86: the door map and the door pairing for the drawn offsets.
BuildDoors(hx, vy) ==
    VertLoop(HorLoop([doors |-> <<>>, pairing |-> <<>>], 0, hx), 0, vy)

\* The offsets one rand.integers(0, ROOM_SIZE, ROOM_COUNT) call per boundary
\* can return.
OffsetDraws ==
    [1..(ROOM_COUNT - 1) -> [1..ROOM_COUNT -> 0..(ROOM_SIZE - 1)]]

\* rand.integers(0, ROOM_SIZE * ROOM_COUNT, 2) for the player.
CoordDraws == (0..(Side - 1)) \X (0..(Side - 1))

\* The same draw for the key and for the car, bounded by MaxDraw.
PickupDraws ==
    (0..(Min(Side, MaxDraw) - 1)) \X (0..(Min(Side, MaxDraw) - 1))

door_pairs == door_pairing

allowedMutAlways(pos, new_pos) == TRUE

allowed(pos, new_pos) ==
    IF pos \in DOMAIN doors THEN InList(new_pos, doors[pos]) ELSE FALSE

\* Lines 110-111.
OffGrid(x, y) == x < 0 \/ x >= Side \/ y < 0 \/ y >= Side

\* Lines 116-119: the test "on border, need door to cross".
OnBorder(px, py, dx, dy) ==
    \/ (px % ROOM_SIZE = 0 /\ (px + dx) % ROOM_SIZE = ROOM_SIZE - 1)
    \/ (px % ROOM_SIZE = ROOM_SIZE - 1 /\ (px + dx) % ROOM_SIZE = 0)
    \/ (py % ROOM_SIZE = 0 /\ (py + dy) % ROOM_SIZE = ROOM_SIZE - 1)
    \/ (py % ROOM_SIZE = ROOM_SIZE - 1 /\ (py + dy) % ROOM_SIZE = 0)

\* Lines 106-125: the cell step(action) leaves the player on when the
\* player is on cell pos.
MoveTo(pos, action) ==
    LET d == actions_to_move(action)
        p == pos_to_coord(pos)
        new_pos == coord_to_pos(p[1] + d[1], p[2] + d[2])
    IN IF OffGrid(p[1] + d[1], p[2] + d[2]) THEN pos
       ELSE IF OnBorder(p[1], p[2], d[1], d[2])
       THEN (IF allowed(pos, new_pos) THEN new_pos ELSE pos)
       ELSE new_pos

\* Lines 104-125: the movement block; the new player cell and the reward.
\* Movement records the locals: the player cell before the move (from), the
\* destination (new_pos), the two tests, and the reward of the block.
MovementMutNoPenalty(action) ==
    LET d == actions_to_move(action)
        p == pos_to_coord(player)
        new_pos == coord_to_pos(p[1] + d[1], p[2] + d[2])
        off == OffGrid(p[1] + d[1], p[2] + d[2])
        border == ~off /\ OnBorder(p[1], p[2], d[1], d[2])
        ok == ~off /\ (border => allowed(player, new_pos))
    IN [action |-> action, from |-> player, new_pos |-> new_pos,
        offgrid |-> off, border |-> border,
        player |-> IF ok THEN new_pos ELSE player,
        reward |-> IF ok \/ off THEN 0 ELSE -2]

Movement(action) ==
    LET d == actions_to_move(action)
        p == pos_to_coord(player)
        px == p[1]
        py == p[2]
        dx == d[1]
        dy == d[2]
        new_pos == coord_to_pos(px + dx, py + dy)
        off == OffGrid(px + dx, py + dy)
        border == ~off /\ OnBorder(px, py, dx, dy)
        ok == ~off /\ (border => allowed(player, new_pos))
    IN [action |-> action, from |-> player, new_pos |-> new_pos,
        offgrid |-> off, border |-> border,
        player |-> IF ok THEN new_pos ELSE player,
        reward |-> IF ok THEN 0 ELSE -2]

\* Lines 127-135: the pickups, for the player cell pl and the reward r of the
\* movement block.
PickupsMutAdd(pl, r) ==
    LET gotKey == (pl = key)
        r1 == IF gotKey THEN r + 10 ELSE r
        vk == visited_key \/ gotKey
        gotCar == (pl = car /\ vk)
    IN [key |-> IF gotKey THEN -1 ELSE key,
        visited_key |-> vk,
        car |-> IF gotCar THEN -1 ELSE car,
        reward |-> IF gotCar THEN r1 + 40 ELSE r1,
        done |-> gotCar]

PickupsMutKeepKey(pl, r) ==
    LET gotKey == (pl = key)
        r1 == IF gotKey THEN 10 ELSE r
        vk == visited_key \/ gotKey
        gotCar == (pl = car /\ vk)
    IN [key |-> key,
        visited_key |-> vk,
        car |-> IF gotCar THEN -1 ELSE car,
        reward |-> IF gotCar THEN r1 + 40 ELSE r1,
        done |-> gotCar]

PickupsMutNoGate(pl, r) ==
    LET gotKey == (pl = key)
        r1 == IF gotKey THEN 10 ELSE r
        vk == visited_key \/ gotKey
        gotCar == (pl = car)
    IN [key |-> IF gotKey THEN -1 ELSE key,
        visited_key |-> vk,
        car |-> IF gotCar THEN -1 ELSE car,
        reward |-> IF gotCar THEN r1 + 40 ELSE r1,
        done |-> gotCar]

Pickups(pl, r) ==
    LET gotKey == (pl = key)
        r1 == IF gotKey THEN 10 ELSE r
        vk == visited_key \/ gotKey
        gotCar == (pl = car /\ vk)
    IN [key |-> IF gotKey THEN -1 ELSE key,
        visited_key |-> vk,
        car |-> IF gotCar THEN -1 ELSE car,
        reward |-> IF gotCar THEN r1 + 40 ELSE r1,
        done |-> gotCar]

\* Lines 137-138: the time limit, for the counter n of this step.
TimeUpMutOff(n) == n > MAX_STEPS + 1

TimeUp(n) == n > MAX_STEPS

NoMove == [action |-> -1, from |-> -1, new_pos |-> -1, offgrid |-> FALSE,
           border |-> FALSE, player |-> -1, reward |-> 0]

\* The state reset() leaves for the draws p, k, c (coordinates of player,
\* key and car) and the door offsets hx, vy.
GAfterReset(p, k, c, hx, vy, pl, ky, cr, ds, dp, vk, st, mv, rt) ==
    LET built == BuildDoors(hx, vy)
    IN /\ pl = coord_to_pos(p[1], p[2])
       /\ ky = coord_to_pos(k[1], k[2])
       /\ cr = coord_to_pos(c[1], c[2])
       /\ ds = built.doors
       /\ dp = built.pairing
       /\ vk = FALSE
       /\ st = 0
       /\ mv = NoMove
       /\ rt = [kind |-> "reset",
                obs |-> <<pl, ky, cr>> \o built.pairing,
                reward |-> 0, done |-> FALSE]

\* The episode a reset call ends: whether the key had been visited, whether
\* key and car were both picked up (-1) and whether step had been called.
GCleared(vk, ky, cr, st) ==
    [visited_key |-> vk, picked |-> (ky = -1 /\ cr = -1), stepped |-> st > 0]

\* GridWorld(ROOM_SIZE, ROOM_COUNT) for a configuration of the set cfgs:
\* the constructor calls reset() and then sets steps = 0.
GConstruct(cfgs) ==
    /\ \E cfg \in cfgs : ROOM_SIZE = cfg[1] /\ ROOM_COUNT = cfg[2]
    /\ \E p \in CoordDraws, k \in PickupDraws, c \in PickupDraws :
       \E hx \in OffsetDraws, vy \in OffsetDraws :
          GAfterReset(p, k, c, hx, vy, player, key, car, doors,
                      door_pairing, visited_key, steps, g_move, g_ret)
    /\ g_cleared = GCleared(FALSE, 0, 0, 0)

GReset ==
    /\ \E p \in CoordDraws, k \in PickupDraws, c \in PickupDraws :
       \E hx \in OffsetDraws, vy \in OffsetDraws :
          GAfterReset(p, k, c, hx, vy, player', key', car', doors',
                      door_pairing', visited_key', steps', g_move', g_ret')
    /\ g_cleared' = GCleared(visited_key, key, car, steps)
    /\ UNCHANGED <<ROOM_SIZE, ROOM_COUNT, dvars, mvars>>

\* step(action) for an action of Discrete(4), while fewer than cap calls
\* were made since the last reset.
GStepUpTo(cap) ==
    /\ steps < cap
    /\ \E action \in 0..3 :
          LET mv == Movement(action)
              pk == Pickups(mv.player, mv.reward)
              done == pk.done \/ TimeUp(steps + 1)
          IN /\ steps' = steps + 1
             /\ player' = mv.player
             /\ key' = pk.key
             /\ visited_key' = pk.visited_key
             /\ car' = pk.car
             /\ g_move' = mv
             /\ g_ret' = [kind |-> "step",
                          obs |-> <<mv.player, pk.key, pk.car>> \o door_pairs,
                          reward |-> pk.reward, done |-> done]
    /\ g_cleared' = GCleared(FALSE, 0, 0, 0)
    /\ UNCHANGED <<ROOM_SIZE, ROOM_COUNT, doors, door_pairing, dvars, mvars>>

GStep == GStepUpTo(MaxGridSteps)

GStepRooms == GStepUpTo(MaxRoomSteps)

GStepSolve == GStepUpTo(MaxSolveSteps)

\* Draws (player, key, car) of coordinates on the grids of SolveConfigs:
\* the player and the key on either side of the first room boundary in the
\* bottom row (in the corners of the row when there is one room), the car
\* on the key or above it.
SolveDraws ==
    { <<(<<ROOM_SIZE - 1, 0>>), (<<ROOM_SIZE % Side, 0>>), c>> :
         c \in {<<ROOM_SIZE % Side, 0>>, <<ROOM_SIZE % Side, 1>>} }

\* GridWorld(ROOM_SIZE, ROOM_COUNT) for a configuration of the set cfgs,
\* with the draws of SolveDraws and any door offsets.
GConstructSolve(cfgs) ==
    /\ \E cfg \in cfgs : ROOM_SIZE = cfg[1] /\ ROOM_COUNT = cfg[2]
    /\ \E d \in SolveDraws :
       \E hx \in OffsetDraws, vy \in OffsetDraws :
          GAfterReset(d[1], d[2], d[3], hx, vy, player, key, car, doors,
                      door_pairing, visited_key, steps, g_move, g_ret)
    /\ g_cleared = GCleared(FALSE, 0, 0, 0)

(***************************************************************************)
(* PointMaze                                                               *)
(***************************************************************************)
\* scaling_factor
SCALING_FACTOR == 4

\* self.maze, top row first: "1" is a wall, "r" the goal, "0" floor.
maze ==
    << <<"1", "1", "1", "1", "1">>,
       <<"1", "r", "0", "0", "1">>,
       <<"1", "1", "1", "0", "1">>,
       <<"1", "0", "0", "0", "1">>,
       <<"1", "1", "1", "1", "1">> >>

maze_width == Len(maze[1])

maze_height == Len(maze)

\* ---- Floating-point values.
\* The number <<a, b, c>>, with 0 <= b < Limb and 0 <= c < Limb, is
\* a * 2^-23 + b * 2^-53 + c * 2^-83 (a carries the sign).
Limb == 2^30

Zero == <<0, 0, 0>>

\* The integer n as a number.
Whole(n) == <<n * 2^23, 0, 0>>

\* The number with the digits a, b, c, after the carries.
Norm(a, b, c) ==
    LET b1 == b + (c \div Limb)
    IN <<a + (b1 \div Limb), b1 % Limb, c % Limb>>

\* v + w and -v, exactly.
Add(v, w) == Norm(v[1] + w[1], v[2] + w[2], v[3] + w[3])

Neg(v) == Norm(-v[1], -v[2], -v[3])

\* v < w
Less(v, w) ==
    \/ v[1] < w[1]
    \/ v[1] = w[1] /\ v[2] < w[2]
    \/ v[1] = w[1] /\ v[2] = w[2] /\ v[3] < w[3]

\* v / 4, exactly.
Quarter(v) ==
    <<v[1] \div 4,
      (v[1] % 4) * (Limb \div 4) + (v[2] \div 4),
      (v[2] % 4) * (Limb \div 4) + (v[3] \div 4)>>

\* The position of the leading binary digit of n >= 1.
RECURSIVE Log2(_)
Log2(n) == IF n <= 1 THEN 0 ELSE 1 + Log2(n \div 2)

\* The position of the leading binary digit of v >= 0, counted from the last
\* digit of c (0 for v = 0).
Msb(v) ==
    IF v[1] > 0 THEN 60 + Log2(v[1])
    ELSE IF v[2] > 0 THEN 30 + Log2(v[2])
    ELSE Log2(v[3])

\* Rounding to nearest, a tie going to the even multiple (IEEE 754
\* round-to-nearest-even): whether the digits dropped, given as their leading
\* part top, the half of its range, and whether the rest is 0, round the
\* last digit kept upwards; odd tells that this digit is odd.
RoundsUp(top, half, rest_zero, odd) ==
    \/ top > half
    \/ top = half /\ ~rest_zero
    \/ top = half /\ rest_zero /\ odd

\* The digits of v from the j-th on are 0.
LowerZero(v, j) == \A k \in j..3 : v[k] = 0

\* Whether v >= 0 is rounded upwards to a multiple of G in its digit 3 - i
\* (i = 0 for c, 1 for b, 2 for a).
RoundsUpAt(v, i, G) ==
    IF G > 1
    THEN RoundsUp(v[3 - i] % G, G \div 2, LowerZero(v, 4 - i),
                  (v[3 - i] \div G) % 2 = 1)
    ELSE RoundsUp(v[4 - i], Limb \div 2, LowerZero(v, 5 - i),
                  v[3 - i] % 2 = 1)

\* v with the digit 3 - i replaced by d and the digits after it by 0.
SetDigit(v, i, d) ==
    IF i = 0 THEN Norm(v[1], v[2], d)
    ELSE IF i = 1 THEN Norm(v[1], d, 0)
    ELSE <<d, 0, 0>>

\* v >= 0 rounded to the nearest multiple of G in its digit 3 - i.
RoundDigit(v, i, G) ==
    SetDigit(v, i, v[3 - i] - (v[3 - i] % G)
                     + (IF RoundsUpAt(v, i, G) THEN G ELSE 0))

\* v >= 0 rounded to the nearest multiple of 2^g of the last digit of c;
\* nothing is dropped when g <= 0.
RoundAt(v, g) ==
    IF g <= 0 THEN v ELSE RoundDigit(v, g \div 30, 2^(g % 30))

\* v >= 0 rounded to a significand of the given number of binary digits.
RoundMag(v, bits) == RoundAt(v, Msb(v) - (bits - 1))

\* |v|, and r with the sign of v.
Abs(v) == IF v[1] < 0 THEN Neg(v) ELSE v

Signed(v, r) == IF v[1] < 0 THEN Neg(r) ELSE r

\* v rounded to a significand of the given number of binary digits.
RoundSig(v, bits) == Signed(v, RoundMag(Abs(v), bits))

\* The result of a float64 operation whose exact value is v.
Float64(v) == RoundSig(v, 53)

\* Storing v in a float32 array such as self.state or the bounds of the
\* action space.
Float32(v) == RoundSig(v, 24)

\* math.floor
Floor(v) == v[1] \div 2^23

\* math.pi
Pi == <<26353589, 286307424, 0>>

\* 2 * math.pi; the product is exact.
TwoPi == Add(Pi, Pi)

\* 1e-9
Nano == <<0, 9007199, 273526058>>

\* self.starting_point = (1.5, 1.5, 0)
starting_point ==
    [x |-> Quarter(Whole(6)), y |-> Quarter(Whole(6)), theta |-> Zero]

\* self.state_normalisation_factor = (1, 1, 2 pi)
state_normalisation_factor == <<Whole(1), Whole(1), TwoPi>>

\* self.max_dist = 1. / SCALING_FACTOR and self.max_turn = math.pi / 4; the
\* quotients are exact.
max_dist == <<2^23 \div SCALING_FACTOR, 0, 0>>

max_turn == Quarter(Pi)

\* action_high, a float32 array; the action space is [-action_high,
\* action_high].
action_high == <<Float32(max_dist), Float32(max_turn)>>

\* np.clip(v, lo, hi)
Clip(v, lo, hi) == IF Less(v, lo) THEN lo ELSE IF Less(hi, v) THEN hi ELSE v

\* theta + dtheta in float64, for the stored heading theta.
AddTheta(theta, dtheta) == Float64(Add(theta, dtheta))

\* v % (2 * math.pi) for -2 pi < v < 4 pi: the remainder of fmod, which is
\* exact, moved up by 2 pi (a float64 addition) when it is negative.
Mod2Pi(v) ==
    IF v[1] < 0 THEN Float64(Add(v, TwoPi))
    ELSE IF ~Less(v, TwoPi) THEN Add(v, Neg(TwoPi))
    ELSE v

\* math.cos and math.sin, as rows <<theta, math.cos(theta), math.sin(theta)>>
\* of float64 values, for the headings at which the inputs below move the
\* point.
TrigTable ==
    {
      <<<<0, 0, 0>>, <<8388608, 0, 0>>, <<0, 0, 0>>>>,
      <<<<1, 0, 0>>, <<8388607, 1073741760, 0>>, <<0, 1073741823, 1073739136>>>>,
      <<<<1, 465098112, 0>>, <<8388607, 1073741693, 0>>, <<1, 465098111, 1073733888>>>>,
      <<<<1, 474105216, 0>>, <<8388607, 1073741691, 0>>, <<1, 474105215, 1073733632>>>>,
      <<<<1, 474105344, 0>>, <<8388607, 1073741691, 0>>, <<1, 474105343, 1073733632>>>>,
      <<<<1, 483112448, 0>>, <<8388607, 1073741689, 0>>, <<1, 483112447, 1073733376>>>>,
      <<<<1, 483112576, 0>>, <<8388607, 1073741689, 0>>, <<1, 483112575, 1073733376>>>>,
      <<<<1, 492119680, 0>>, <<8388607, 1073741688, 0>>, <<1, 492119679, 1073733376>>>>,
      <<<<1, 492119808, 0>>, <<8388607, 1073741688, 0>>, <<1, 492119807, 1073733376>>>>,
      <<<<1, 501126912, 0>>, <<8388607, 1073741686, 0>>, <<1, 501126911, 1073733120>>>>,
      <<<<1, 501126976, 0>>, <<8388607, 1073741686, 0>>, <<1, 501126975, 1073733120>>>>,
      <<<<1, 518856448, 0>>, <<8388607, 1073741683, 0>>, <<1, 518856447, 1073732864>>>>,
      <<<<1, 527863680, 0>>, <<8388607, 1073741682, 0>>, <<1, 527863679, 1073732864>>>>,
      <<<<1, 536870912, 0>>, <<8388607, 1073741680, 0>>, <<1, 536870911, 1073732608>>>>,
      <<<<2, 536870912, 0>>, <<8388607, 1073741424, 0>>, <<2, 536870911, 1073699328>>>>,
      <<<<2, 823124992, 0>>, <<8388607, 1073741334, 0>>, <<2, 823124991, 1073683968>>>>,
      <<<<2, 832132096, 0>>, <<8388607, 1073741331, 0>>, <<2, 832132095, 1073683456>>>>,
      <<<<2, 841139200, 0>>, <<8388607, 1073741328, 0>>, <<2, 841139199, 1073682944>>>>,
      <<<<2, 841139288, 0>>, <<8388607, 1073741328, 0>>, <<2, 841139287, 1073682944>>>>,
      <<<<754970, 841139288, 0>>, <<8354657, 448377161, 0>>, <<753951, 1069592174, 671088640>>>>,
      <<<<754970, 872415232, 0>>, <<8354657, 445566139, 0>>, <<753952, 26999713, 939524096>>>>,
      <<<<754974, 0, 0>>, <<8354657, 137953065, 0>>, <<753955, 214474408, 805306368>>>>,
      <<<<754974, 536870912, 0>>, <<8354657, 89699916, 0>>, <<753955, 749172463, 536870912>>>>,
      <<<<754974, 805306368, 0>>, <<8354657, 65573330, 0>>, <<753955, 1016521489, 939524096>>>>,
      <<<<754974, 872415232, 0>>, <<8354657, 59541682, 0>>, <<753956, 9616922, 268435456>>>>,
      <<<<5833422, 536870912, 0>>, <<6440762, 72707320, 0>>, <<5374507, 266882965, 0>>>>,
      <<<<5833422, 841139288, 0>>, <<6440761, 951507072, 0>>, <<5374507, 500499816, 0>>>>,
      <<<<5833423, 0, 0>>, <<6440761, 802480668, 0>>, <<5374507, 679091727, 0>>>>,
      <<<<6588394, 536870912, 0>>, <<5931643, 636938906, 0>>, <<5931639, 654805553, 0>>>>,
      <<<<6588394, 841139288, 0>>, <<5931643, 421788742, 0>>, <<5931639, 869955854, 0>>>>,
      <<<<6588395, 0, 0>>, <<5931643, 257313959, 0>>, <<5931639, 1034430732, 0>>>>,
      <<<<6588396, 536870912, 0>>, <<5931642, 192180809, 0>>, <<5931641, 25822484, 0>>>>,
      <<<<6588397, 340012312, 0>>, <<5931641, 645872589, 0>>, <<5931641, 645872588, 0>>>>,
      <<<<6588397, 536870912, 0>>, <<5931641, 506672536, 0>>, <<5931641, 785072638, 0>>>>,
      <<<<6588398, 536870912, 0>>, <<5931640, 821164173, 0>>, <<5931642, 470580877, 0>>>>,
      <<<<6588398, 841139224, 0>>, <<5931640, 606013953, 0>>, <<5931642, 685731030, 0>>>>,
      <<<<6588398, 841139288, 0>>, <<5931640, 606013907, 0>>, <<5931642, 685731075, 0>>>>,
      <<<<6588399, 0, 0>>, <<5931640, 441539046, 0>>, <<5931642, 850205875, 0>>>>,
      <<<<6588399, 536870912, 0>>, <<5931640, 61913896, 0>>, <<5931643, 156089026, 0>>>>,
      <<<<6588400, 0, 0>>, <<5931639, 756030547, 0>>, <<5931643, 535713978, 0>>>>,
      <<<<6588400, 107409688, 0>>, <<5931639, 680080404, 0>>, <<5931643, 611664072, 0>>>>,
      <<<<7343368, 0, 0>>, <<5374510, 453240201, 0>>, <<6440759, 450466919, 0>>>>,
      <<<<7343368, 138685720, 0>>, <<5374510, 346757533, 0>>, <<6440759, 539321689, 0>>>>,
      <<<<7343370, 536870912, 0>>, <<5374508, 539680579, 0>>, <<6440761, 22826299, 0>>>>,
      <<<<7343371, 536870912, 0>>, <<5374507, 789004951, 0>>, <<6440761, 710763338, 0>>>>,
      <<<<7343372, 0, 0>>, <<5374507, 376796194, 0>>, <<6440761, 1054731821, 0>>>>,
      <<<<7343372, 71576856, 0>>, <<5374507, 321839580, 0>>, <<6440762, 26848658, 0>>>>,
      <<<<12421820, 0, 0>>, <<753955, 891746795, 0>>, <<8354657, 76833471, 0>>>>,
      <<<<12421820, 340012312, 0>>, <<753955, 553110602, 805306368>>, <<8354657, 107393274, 0>>>>,
      <<<<12421820, 536870912, 0>>, <<753955, 357048741, 0>>, <<8354657, 125086628, 0>>>>,
      <<<<13176792, 0, 0>>, <<2, 680024624, 592153088>>, <<8388607, 1073741380, 0>>>>,
      <<<<13176792, 340012312, 0>>, <<2, 340012312, 592168960>>, <<8388607, 1073741481, 0>>>>,
      <<<<13176794, 0, 0>>, <<0, 680024624, 592202112>>, <<8388607, 1073741798, 0>>>>,
      <<<<13176794, 536870912, 0>>, <<0, 143153712, 592202848>>, <<8388607, 1073741823, 0>>>>,
      <<<<13176794, 876883224, 0>>, <<-1, 876883224, 592202880>>, <<8388607, 1073741822, 0>>>>,
      <<<<13176795, 0, 0>>, <<-1, 680024624, 592203008>>, <<8388607, 1073741815, 0>>>>,
      <<<<13176796, 0, 0>>, <<-2, 680024624, 592209920>>, <<8388607, 1073741704, 0>>>>,
      <<<<13176796, 340012312, 0>>, <<-2, 340012312, 592215808>>, <<8388607, 1073741643, 0>>>>,
      <<<<13176796, 536870912, 0>>, <<-2, 143153712, 592220672>>, <<8388607, 1073741601, 0>>>>,
      <<<<13176797, 0, 0>>, <<-3, 680024624, 592239104>>, <<8388607, 1073741466, 0>>>>,
      <<<<13176797, 340012312, 0>>, <<-3, 340012312, 592255488>>, <<8388607, 1073741363, 0>>>>,
      <<<<13931765, 0, 0>>, <<-753952, 449760921, 134217728>>, <<8354657, 488590589, 0>>>>,
      <<<<13931765, 340012312, 0>>, <<-753952, 111124714, 536870912>>, <<8354657, 458030945, 0>>>>,
      <<<<13931768, 0, 0>>, <<-753955, 462797982, 134217728>>, <<8354657, 199072608, 0>>>>,
      <<<<13931768, 536870912, 0>>, <<-753956, 1001841747, 805306368>>, <<8354657, 150819500, 0>>>>,
      <<<<13931769, 0, 0>>, <<-753956, 467143692, 134217728>>, <<8354657, 102566359, 0>>>>,
      <<<<13931769, 340012312, 0>>, <<-753956, 128507500, 134217728>>, <<8354657, 72006554, 0>>>>,
      <<<<19010217, 340012312, 0>>, <<-5374508, 655711090, 0>>, <<6440761, 1020323572, 0>>>>,
      <<<<19010218, 0, 0>>, <<-5374508, 92354575, 0>>, <<6440761, 550229502, 0>>>>,
      <<<<19010218, 536870912, 0>>, <<-5374509, 753887673, 0>>, <<6440761, 206260983, 0>>>>,
      <<<<19765189, 340012312, 0>>, <<-5931640, 279736175, 0>>, <<5931643, 497738900, 0>>>>,
      <<<<19765190, 0, 0>>, <<-5931641, 834652744, 0>>, <<5931642, 1052655753, 0>>>>,
      <<<<19765192, 0, 0>>, <<-5931642, 389894146, 0>>, <<5931641, 607897499, 0>>>>,
      <<<<19765192, 340012312, 0>>, <<-5931642, 149469140, 0>>, <<5931641, 367472481, 0>>>>,
      <<<<19765192, 536870912, 0>>, <<-5931642, 10269097, 0>>, <<5931641, 228272422, 0>>>>,
      <<<<19765193, 340012312, 0>>, <<-5931643, 463960918, 0>>, <<5931640, 681964102, 0>>>>,
      <<<<19765194, 0, 0>>, <<-5931644, 1018877734, 0>>, <<5931640, 163138882, 0>>>>,
      <<<<19765194, 340012312, 0>>, <<-5931644, 778452786, 0>>, <<5931639, 996455632, 0>>>>,
      <<<<19765194, 536870912, 0>>, <<-5931644, 639252775, 0>>, <<5931639, 857255540, 0>>>>,
      <<<<20520162, 0, 0>>, <<-6440760, 1058960969, 0>>, <<5374510, 975361973, 0>>>>,
      <<<<20520162, 340012312, 0>>, <<-6440760, 841117932, 0>>, <<5374510, 714301091, 0>>>>,
      <<<<20520166, 0, 0>>, <<-6440762, 454695818, 0>>, <<5374507, 898918173, 0>>>>,
      <<<<20520166, 340012312, 0>>, <<-6440762, 236852906, 0>>, <<5374507, 637857188, 0>>>>,
      <<<<20520166, 536870912, 0>>, <<-6440762, 110727329, 0>>, <<5374507, 486709422, 0>>>>,
      <<<<25598615, 340012312, 0>>, <<-8354658, 930961846, 0>>, <<753955, 160986879, 402653184>>>>,
      <<<<25598616, 0, 0>>, <<-8354658, 865015399, 0>>, <<753954, 503968781, 939524096>>>>,
      <<<<25598616, 536870912, 0>>, <<-8354658, 816762329, 0>>, <<753953, 1043012544, 0>>>>,
      <<<<26353587, 340012312, 0>>, <<-8388608, 243, 0>>, <<1, 1020036937, 110643712>>>>,
      <<<<26353588, 0, 0>>, <<-8388608, 103, 0>>, <<1, 286307425, 110658304>>>>,
      <<<<26353588, 536870912, 0>>, <<-8388608, 38, 0>>, <<0, 823178337, 110662656>>>>,
      <<<<26353589, 340012312, 0>>, <<-8388608, 0, 0>>, <<-1, 1020036937, 110663888>>>>,
      <<<<26353590, 0, 0>>, <<-8388608, 34, 0>>, <<-1, 286307425, 110664960>>>>,
      <<<<26353591, 340012312, 0>>, <<-8388608, 269, 0>>, <<-3, 1020036937, 110687232>>>>,
      <<<<26353592, 0, 0>>, <<-8388608, 478, 0>>, <<-3, 286307425, 110719488>>>>,
      <<<<26353592, 536870912, 0>>, <<-8388608, 669, 0>>, <<-4, 823178337, 110756352>>>>,
      <<<<27108559, 340012312, 0>>, <<-8354658, 554591604, 0>>, <<-753952, 788397129, 536870912>>>>,
      <<<<27108560, 0, 0>>, <<-8354658, 620537771, 0>>, <<-753952, 57637182, 805306368>>>>,
      <<<<27108563, 340012312, 0>>, <<-8354658, 940615672, 0>>, <<-753956, 805779886, 0>>>>,
      <<<<27108564, 0, 0>>, <<-8354658, 1006562187, 0>>, <<-753956, 75019970, 671088640>>>>,
      <<<<27108566, 536870912, 0>>, <<-8354657, 174086659, 0>>, <<-753959, 622755218, 671088640>>>>,
      <<<<32187013, 340012312, 0>>, <<-6440762, 993606438, 0>>, <<-5374509, 602739924, 0>>>>,
      <<<<32187014, 0, 0>>, <<-6440761, 389958776, 0>>, <<-5374509, 39383486, 0>>>>,
      <<<<32187014, 536870912, 0>>, <<-6440761, 733927361, 0>>, <<-5374510, 700916640, 0>>>>,
      <<<<32941985, 340012312, 0>>, <<-5931643, 539911085, 0>>, <<-5931641, 315827531, 0>>>>,
      <<<<32941986, 0, 0>>, <<-5931643, 1058736141, 0>>, <<-5931642, 870744184, 0>>>>,
      <<<<32941986, 536870912, 0>>, <<-5931642, 364619365, 0>>, <<-5931642, 491119107, 0>>>>,
      <<<<32941987, 340012312, 0>>, <<-5931642, 984669463, 0>>, <<-5931643, 944810881, 0>>>>,
      <<<<32941988, 0, 0>>, <<-5931641, 429752819, 0>>, <<-5931643, 425985834, 0>>>>,
      <<<<32941989, 340012312, 0>>, <<-5931640, 355686379, 0>>, <<-5931644, 500052769, 0>>>>,
      <<<<32941990, 0, 0>>, <<-5931640, 874511682, 0>>, <<-5931645, 1054969669, 0>>>>,
      <<<<32941990, 536870912, 0>>, <<-5931639, 180395087, 0>>, <<-5931645, 675344773, 0>>>>,
      <<<<33696957, 340012312, 0>>, <<-5374511, 661736147, 0>>, <<-6440760, 588866637, 0>>>>,
      <<<<33696960, 0, 0>>, <<-5374509, 726443528, 0>>, <<-6440762, 890381672, 0>>>>,
      <<<<33696961, 340012312, 0>>, <<-5374508, 738180170, 0>>, <<-6440763, 1058343579, 0>>>>,
      <<<<33696962, 536870912, 0>>, <<-5374507, 640003711, 0>>, <<-6440763, 244281139, 0>>>>,
      <<<<33696964, 0, 0>>, <<-5374506, 802888432, 0>>, <<-6440764, 286117844, 0>>>>,
      <<<<38775410, 536870912, 0>>, <<-753955, 427198708, 805306368>>, <<-8354658, 877881824, 0>>>>,
      <<<<38775411, 340012312, 0>>, <<-753954, 226791144, 402653184>>, <<-8354658, 799069012, 0>>>>,
      <<<<38775412, 0, 0>>, <<-753954, 957551076, 671088640>>, <<-8354658, 733122683, 0>>>>,
      <<<<39530382, 536870912, 0>>, <<-2, 644280686, 370882560>>, <<-8388608, 125, 0>>>>,
      <<<<39530384, 0, 0>>, <<0, 107409774, 370875088>>, <<-8388608, 1, 0>>>>,
      <<<<39530385, 340012312, 0>>, <<1, 447422086, 370867200>>, <<-8388608, 128, 0>>>>,
      <<<<39530386, 536870912, 0>>, <<2, 644280686, 370827264>>, <<-8388608, 433, 0>>>>,
      <<<<39530387, 340012312, 0>>, <<3, 447422086, 370766336>>, <<-8388608, 747, 0>>>>,
      <<<<39530388, 0, 0>>, <<4, 107409774, 370686976>>, <<-8388608, 1076, 0>>>>,
      <<<<40285356, 0, 0>>, <<753953, 330140870, 268435456>>, <<-8354658, 752430283, 0>>>>,
      <<<<40285357, 340012312, 0>>, <<753954, 664431371, 536870912>>, <<-8354658, 879496125, 0>>>>,
      <<<<40285358, 536870912, 0>>, <<753955, 856147522, 0>>, <<-8354658, 993695740, 0>>>>,
      <<<<40285360, 0, 0>>, <<753957, 312758019, 402653184>>, <<-8354657, 64713573, 0>>>>,
      <<<<45363806, 536870912, 0>>, <<5374507, 349352046, 0>>, <<-6440763, 1069851001, 0>>>>,
      <<<<45363808, 0, 0>>, <<5374508, 512236435, 0>>, <<-6440762, 1028014694, 0>>>>,
      <<<<45363809, 340012312, 0>>, <<5374509, 523972913, 0>>, <<-6440761, 860052983, 0>>>>,
      <<<<46118778, 536870912, 0>>, <<5931639, 730755758, 0>>, <<-5931644, 512753073, 0>>>>,
      <<<<46118780, 0, 0>>, <<5931640, 795889389, 0>>, <<-5931643, 577886170, 0>>>>,
      <<<<46118781, 35743936, 0>>, <<5931641, 506672535, 0>>, <<-5931642, 288669185, 0>>>>,
      <<<<46118781, 340012312, 0>>, <<5931641, 721822768, 0>>, <<-5931642, 503819416, 0>>>>,
      <<<<46118782, 35743936, 0>>, <<5931642, 192180807, 0>>, <<-5931642, 1047919338, 0>>>>,
      <<<<46118782, 500842048, 0>>, <<5931642, 521054795, 0>>, <<-5931641, 303051584, 0>>>>,
      <<<<46118782, 509849152, 0>>, <<5931642, 527423779, 0>>, <<-5931641, 309420569, 0>>>>,
      <<<<46118782, 509849280, 0>>, <<5931642, 527423869, 0>>, <<-5931641, 309420659, 0>>>>,
      <<<<46118782, 518856384, 0>>, <<5931642, 533792853, 0>>, <<-5931641, 315789645, 0>>>>,
      <<<<46118782, 518856512, 0>>, <<5931642, 533792943, 0>>, <<-5931641, 315789735, 0>>>>,
      <<<<46118782, 527863616, 0>>, <<5931642, 540161927, 0>>, <<-5931641, 322158721, 0>>>>,
      <<<<46118782, 527863744, 0>>, <<5931642, 540162017, 0>>, <<-5931641, 322158811, 0>>>>,
      <<<<46118782, 536870848, 0>>, <<5931642, 546531000, 0>>, <<-5931641, 328527796, 0>>>>,
      <<<<46118782, 536870912, 0>>, <<5931642, 546531046, 0>>, <<-5931641, 328527842, 0>>>>,
      <<<<46118782, 554600384, 0>>, <<5931642, 559067674, 0>>, <<-5931641, 341064473, 0>>>>,
      <<<<46118782, 563607616, 0>>, <<5931642, 565436747, 0>>, <<-5931641, 347433549, 0>>>>,
      <<<<46118782, 572614848, 0>>, <<5931642, 571805821, 0>>, <<-5931641, 353802625, 0>>>>,
      <<<<46118783, 572614848, 0>>, <<5931643, 257313958, 0>>, <<-5931640, 39311090, 0>>>>,
      <<<<46118783, 858868928, 0>>, <<5931643, 459726100, 0>>, <<-5931640, 241723351, 0>>>>,
      <<<<46118783, 867876032, 0>>, <<5931643, 466095082, 0>>, <<-5931640, 248092337, 0>>>>,
      <<<<46118783, 876883136, 0>>, <<5931643, 472464065, 0>>, <<-5931640, 254461323, 0>>>>,
      <<<<46118784, 0, 0>>, <<5931643, 611664133, 0>>, <<-5931640, 393661481, 0>>>>,
      <<<<46118785, 340012312, 0>>, <<5931644, 537597035, 0>>, <<-5931639, 319595204, 0>>>>,
      <<<<46873752, 0, 0>>, <<6440759, 519283455, 0>>, <<-5374511, 702970671, 0>>>>,
      <<<<46873753, 340012312, 0>>, <<6440760, 351321889, 0>>, <<-5374510, 714707028, 0>>>>,
      <<<<46873755, 35743936, 0>>, <<6440761, 458512166, 0>>, <<-5374509, 1056183178, 0>>>>,
      <<<<46873755, 572614848, 0>>, <<6440761, 802480666, 0>>, <<-5374508, 394650095, 0>>>>,
      <<<<46873755, 841050304, 0>>, <<6440761, 974464908, 0>>, <<-5374508, 600754474, 0>>>>,
      <<<<46873755, 908159168, 0>>, <<6440761, 1017460967, 0>>, <<-5374508, 652280569, 0>>>>,
      <<<<46873756, 0, 0>>, <<6440762, 49806494, 0>>, <<-5374508, 779414711, 0>>>>,
      <<<<51952203, 572614848, 0>>, <<8354657, 41446736, 0>>, <<-753957, 863613130, 402653184>>>>,
      <<<<51952204, 0, 0>>, <<8354657, 86487304, 0>>, <<-753956, 288970087, 536870912>>>>,
      <<<<51952204, 35743936, 0>>, <<8354657, 89699916, 0>>, <<-753956, 324569358, 268435456>>>>,
      <<<<51952205, 340012312, 0>>, <<8354657, 213553333, 0>>, <<-753955, 623260571, 939524096>>>>,
      <<<<52707176, 0, 0>>, <<8388607, 1073741413, 0>>, <<-3, 501126973, 852458496>>>>,
      <<<<52707176, 35743936, 0>>, <<8388607, 1073741424, 0>>, <<-3, 536870909, 852456960>>>>,
      <<<<52707177, 340012312, 0>>, <<8388607, 1073741729, 0>>, <<-2, 841139285, 852419072>>>>
    }

Trig(theta) == CHOOSE row \in TrigTable : row[1] = theta

Cos(row) == row[2]

Sin(row) == row[3]

\* c * ds in float64 for ds = 0.0 and ds = +-max_dist, a power of two: the
\* products are exact.
Times(c, ds) ==
    CASE ds = Zero -> Zero
      [] ds = max_dist -> Quarter(c)
      [] ds = Neg(max_dist) -> Neg(Quarter(c))

\* (math.cos(theta) * ds, math.sin(theta) * ds), for the row of theta, and
\* for theta; both products are 0.0 when ds is.
Scaled(row, ds) == <<Times(Cos(row), ds), Times(Sin(row), ds)>>

Displace(theta, ds) ==
    IF ds = Zero THEN <<Zero, Zero>> ELSE Scaled(Trig(theta), ds)

\* x + d in float64, for the stored coordinate x.
Advance(x, d) == Float64(Add(x, d))

\* Lines 143-150.
is_colliding(x, y, check_for) ==
    LET cx == Floor(x)
        cy == Floor(y)
    IN IF cx >= 0 /\ cx < maze_width /\ cy >= 0 /\ cy < maze_height
       THEN maze[(maze_height - 1 - cy) + 1][cx + 1] = check_for
       ELSE TRUE

\* The stored position lies in the goal cell 'r' of self.maze: column 1 of
\* the second row from the top.
InGoal(st) == Floor(st.x) = 1 /\ Floor(st.y) = maze_height - 2

\* Lines 153-154: (state - starting_point) / state_normalisation_factor and
\* episode_steps / 10.  The differences are float64 values; each quotient
\* is kept as the pair <<dividend, divisor>>, and the last component is in
\* tenths.
normalised_state(st, n) ==
    << <<Float64(Add(st.x, Neg(starting_point.x))),
         state_normalisation_factor[1]>>,
       <<Float64(Add(st.y, Neg(starting_point.y))),
         state_normalisation_factor[2]>>,
       <<Float64(Add(st.theta, Neg(starting_point.theta))),
         state_normalisation_factor[3]>>,
       n >>

\* Lines 105-120: the locals of a step with the clipped action (ds, dtheta),
\* which are float64 values, and the float32 array self.state after it.
NewPoseMutKeepTheta(st, ds, dtheta) ==
    LET theta == Mod2Pi(AddTheta(st.theta, dtheta))
        d == Displace(theta, ds)
        x == Advance(st.x, d[1])
        y == Advance(st.y, d[2])
        wall_collision == is_colliding(x, y, "1")
    IN [ds |-> ds, dtheta |-> dtheta, x |-> x, y |-> y, theta |-> theta,
        wall_collision |-> wall_collision,
        state |-> IF ~wall_collision
                  THEN [x |-> Float32(x), y |-> Float32(y),
                        theta |-> Float32(theta)]
                  ELSE [st EXCEPT !.theta = Float32(theta)]]

NewPose(st, ds, dtheta) ==
    LET theta == Mod2Pi(AddTheta(st.theta, dtheta))
        d == Displace(theta, ds)
        x == Advance(st.x, d[1])
        y == Advance(st.y, d[2])
        wall_collision == is_colliding(x, y, "1")
    IN [ds |-> ds, dtheta |-> dtheta, x |-> x, y |-> y, theta |-> theta,
        wall_collision |-> wall_collision,
        state |-> IF ~wall_collision
                  THEN [x |-> Float32(x), y |-> Float32(y),
                        theta |-> Float32(theta)]
                  ELSE st]

\* Lines 122-138: reward (in tenths) and steps_beyond_done.
OutcomeMutEveryTime(done, sbd) ==
    IF done
    THEN [reward |-> -1 + 1000,
          steps_beyond_done |-> IF sbd = <<>> THEN <<0>> ELSE <<sbd[1] + 1>>]
    ELSE IF sbd # <<>>
    THEN [reward |-> -1, steps_beyond_done |-> <<sbd[1] + 1>>]
    ELSE [reward |-> -1, steps_beyond_done |-> sbd]

OutcomeMutOnlyInGoal(done, sbd) ==
    IF done /\ sbd = <<>>
    THEN [reward |-> -1 + 1000, steps_beyond_done |-> <<0>>]
    ELSE IF sbd # <<>> /\ done
    THEN [reward |-> -1, steps_beyond_done |-> <<sbd[1] + 1>>]
    ELSE [reward |-> -1, steps_beyond_done |-> sbd]

Outcome(done, sbd) ==
    IF done /\ sbd = <<>>
    THEN [reward |-> -1 + 1000, steps_beyond_done |-> <<0>>]
    ELSE IF sbd # <<>>
    THEN [reward |-> -1, steps_beyond_done |-> <<sbd[1] + 1>>]
    ELSE [reward |-> -1, steps_beyond_done |-> sbd]

NoLocal == [ds |-> Zero, dtheta |-> Zero, x |-> Zero, y |-> Zero,
            theta |-> Zero, wall_collision |-> FALSE]

\* The episode a reset call ends: whether step had been called and whether
\* it had been called after done.
MCleared(es, sbd) ==
    [stepped |-> es > 0, after_done |-> (sbd # <<>> /\ sbd # <<0>>)]

\* Draws of np.random.uniform(-0.1, 0.1, 3), the jitter of (x, y, theta):
\* none; 0.09 and -0.09 on each component; a heading jitter of -1e-9.
NoJitter == <<Zero, Zero, Zero>>

Jitter ==
    LET j == <<754974, 773094113, 268435456>>
    IN { NoJitter,
         <<j, Neg(j), j>>,
         <<Neg(j), j, Neg(j)>>,
         <<Zero, Zero, Neg(Nano)>> }

\* Lines 157-161: the state reset() leaves for the jitter j.  The sum
\* starting_point + j is a float64 array, stored as float32; the heading is
\* then reduced modulo 2 pi and stored again.
MAfterReset(j, st, es, sbd, lc, rt) ==
    LET drawn == [x |-> Float32(Float64(Add(starting_point.x, j[1]))),
                  y |-> Float32(Float64(Add(starting_point.y, j[2]))),
                  theta |-> Float32(Float64(Add(starting_point.theta,
                                                j[3])))]
        s0 == [drawn EXCEPT !.theta = Float32(Mod2Pi(drawn.theta))]
    IN /\ st = s0
       /\ sbd = <<>>
       /\ es = 0
       /\ lc = NoLocal
       /\ rt = [kind |-> "reset", obs |-> normalised_state(s0, 0),
                reward |-> 0, done |-> FALSE]

\* PointMazeEnv() and the reset() that follows it, for a jitter of the set
\* draws.
MConstruct(draws) ==
    /\ \E j \in draws :
          MAfterReset(j, state, episode_steps, steps_beyond_done,
                      m_local, m_ret)
    /\ m_ever_goal = FALSE
    /\ m_cleared = MCleared(0, <<>>)

\* reset(), for a jitter of the set draws.
MResetWith(draws) ==
    /\ \E j \in draws :
          MAfterReset(j, state', episode_steps', steps_beyond_done',
                      m_local', m_ret')
    /\ m_ever_goal' = FALSE
    /\ m_cleared' = MCleared(episode_steps, steps_beyond_done)
    /\ UNCHANGED <<dvars, gvars>>

MReset == MResetWith(Jitter)

MResetGoal == MResetWith({NoJitter})

\* The actions (ds, dtheta) tried: forward by max_dist; a left turn by
\* max_turn in place; backwards and to the right beyond the bounds of the
\* action space (-0.5, -pi/2), to be clipped; nothing; a right turn of 1e-9.
ActionInputs ==
    { <<max_dist, Zero>>,
      <<Zero, max_turn>>,
      <<Neg(Add(max_dist, max_dist)), Neg(Add(max_turn, max_turn))>>,
      <<Zero, Zero>>,
      <<Zero, Neg(Nano)>> }

\* The actions tried on the way to the goal: forward by max_dist, straight
\* on or after a left turn by max_turn.
GoalInputs == { <<max_dist, Zero>>, <<max_dist, max_turn>> }

\* Lines 103 and 122-140 of step(action), for the locals and the state np of
\* lines 105-120.
MStepTo(np) ==
    LET done == is_colliding(np.state.x, np.state.y, "r")
        out == Outcome(done, steps_beyond_done)
    IN /\ episode_steps' = episode_steps + 1
       /\ state' = np.state
       /\ steps_beyond_done' = out.steps_beyond_done
       /\ m_local' = [k \in DOMAIN NoLocal |-> np[k]]
       /\ m_ret' = [kind |-> "step",
                    obs |-> normalised_state(np.state, episode_steps + 1),
                    reward |-> out.reward, done |-> done]
       /\ m_ever_goal' = (m_ever_goal \/ InGoal(np.state))
       /\ m_cleared' = MCleared(0, <<>>)

\* step(action) for an action of the set inputs, while episode_steps is below
\* cap.
MStepWith(inputs, cap) ==
    /\ episode_steps < cap
    /\ \E action \in inputs :
          MStepTo(NewPose(state,
                          Clip(action[1], Neg(action_high[1]), action_high[1]),
                          Clip(action[2], Neg(action_high[2]),
                               action_high[2])))
    /\ UNCHANGED <<dvars, gvars>>

MStep == MStepWith(ActionInputs, MaxEpisodeSteps)

MStepGoal == MStepWith(GoalInputs, MaxGoalSteps)

(***************************************************************************)
(* Specifications                                                          *)
(***************************************************************************)
\* Constructor arguments (ROOM_SIZE, ROOM_COUNT) of the grids explored with
\* resets, and of the larger grids explored from their construction.
SmallConfigs == {<<1, 1>>, <<2, 1>>, <<1, 2>>}

RoomConfigs == {<<3, 1>>, <<2, 2>>}

\* The Discrete Stochastic Decision Process under any calls of step and reset.
InitDSDP == DConstruct /\ GConstruct({<<1, 1>>}) /\ MConstruct({NoJitter})

NextDSDP == DStep \/ DReset

SpecDSDP == InitDSDP /\ [][NextDSDP]_vars

\* GridWorld on the small grids under any calls of step and reset.
InitGrid == DConstruct /\ GConstruct(SmallConfigs) /\ MConstruct({NoJitter})

NextGrid == GStep \/ GReset

SpecGrid == InitGrid /\ [][NextGrid]_vars

\* GridWorld on the grids with several rooms or larger rooms, from any
\* constructed state under any calls of step.
InitRooms == DConstruct /\ GConstruct(RoomConfigs) /\ MConstruct({NoJitter})

NextRooms == GStepRooms

SpecRooms == InitRooms /\ [][NextRooms]_vars

\* GridWorld with rooms of size 3 and more, from any constructed maze under
\* any calls of step.
SolveConfigs == {<<3, 1>>, <<4, 1>>, <<3, 2>>}

InitSolve ==
    DConstruct /\ GConstructSolve(SolveConfigs) /\ MConstruct({NoJitter})

NextSolve == GStepSolve

SpecSolve == InitSolve /\ [][NextSolve]_vars

\* PointMaze under any calls of step and reset.
InitMaze == DConstruct /\ GConstruct({<<1, 1>>}) /\ MConstruct(Jitter)

NextMaze == MStep \/ MReset

SpecMaze == InitMaze /\ [][NextMaze]_vars

\* PointMaze from the start without jitter to the goal and beyond, under any
\* calls of step with the actions of GoalInputs and of reset.
InitGoal == DConstruct /\ GConstruct({<<1, 1>>}) /\ MConstruct({NoJitter})

NextGoal == MStepGoal \/ MResetGoal

SpecGoal == InitGoal /\ [][NextGoal]_vars

\* The three environments are separate objects that share no state.  A
\* program drives one of them under any calls of step and reset while the
\* other two are between episodes: just reset, either with no episode behind
\* them (fresh) or after an episode that went on past done.  PointMaze is
\* driven as in SpecGoal, with the jitter of reset, while the other two are
\* fresh; the Discrete Decision Process while GridWorld is fresh; GridWorld
\* while the other two are both fresh or both past an episode.  A fresh
\* GridWorld that waits for the others is the grid of 2 x 2 rooms of one
\* cell with player, key and car drawn on cell 0.
DFresh == d_ret.kind = "reset" /\ d_cleared = DCleared(1, FALSE)

DPastDone == d_ret.kind = "reset" /\ d_cleared = DCleared(-1, TRUE)

MFresh ==
    /\ m_ret.kind = "reset"
    /\ m_cleared = MCleared(0, <<>>)
    /\ state = starting_point

MPastDone ==
    /\ m_ret.kind = "reset"
    /\ m_cleared = MCleared(1, <<1>>)
    /\ state = starting_point

GIdle ==
    /\ ROOM_SIZE = 1
    /\ ROOM_COUNT = 2
    /\ g_ret.kind = "reset"
    /\ g_cleared = GCleared(FALSE, 0, 0, 0)
    /\ player = 0
    /\ key = 0
    /\ car = 0

MIdle == MFresh \/ MPastDone

OthersIdle == (DFresh /\ MFresh) \/ (DPastDone /\ MPastDone)

Init == DConstruct /\ GConstruct(SmallConfigs) /\ MConstruct({NoJitter})

Next ==
    \/ GIdle /\ MIdle /\ DStep
    \/ GIdle /\ MIdle /\ DReset
    \/ OthersIdle /\ GStep
    \/ OthersIdle /\ GReset
    \/ DFresh /\ GIdle /\ MStepGoal
    \/ DFresh /\ GIdle /\ MReset

Spec == Init /\ [][Next]_vars

(***************************************************************************)
(* Properties                                                              *)
(***************************************************************************)
\* The step just taken, as a transition of each environment.
DStepTaken == d_in'.action # -1 /\ dvars' # dvars

MStepTaken == m_ret'.kind = "step" /\ episode_steps' = episode_steps + 1

GStepTaken == g_ret'.kind = "step" /\ steps' = steps + 1

\* The room of a cell: the room's column and row.
Room(pos) ==
    <<pos_to_coord(pos)[1] \div ROOM_SIZE, pos_to_coord(pos)[2] \div ROOM_SIZE>>

\* The destination coordinates of a step with action a from cell pos, and
\* whether they lie outside the grid.
Dest(pos, a) ==
    <<pos_to_coord(pos)[1] + actions_to_move(a)[1],
      pos_to_coord(pos)[2] + actions_to_move(a)[2]>>

DestOff(pos, a) == OffGrid(Dest(pos, a)[1], Dest(pos, a)[2])

DestPos(pos, a) == coord_to_pos(Dest(pos, a)[1], Dest(pos, a)[2])

\* The door map links cell a to cell b.
Linked(a, b) == a \in DOMAIN doors /\ InList(b, doors[a])

Cells == 0..(num_positions - 1)

\* 0.1, the bound of the jitter of reset, and a float32 within it of c.
Tenth == <<838860, 858993459, 268435456>>

NearStart(v, c) ==
    /\ ~Less(v, Float32(Float64(Add(c, Neg(Tenth)))))
    /\ ~Less(Float32(Float64(Add(c, Tenth))), v)

\* C1 as stated: when the candidate position of a PointMaze step is a wall
\* cell or outside the grid, (x, y) is unchanged and the stored heading is
\* the updated heading (theta + dtheta) mod 2 pi.
C1_HeadingKeptOnCollision ==
    [][MStepTaken /\ m_local'.wall_collision
        => /\ state'.x = state.x
           /\ state'.y = state.y
           /\ state'.theta
                = Float32(Mod2Pi(AddTheta(state.theta, m_local'.dtheta)))]_vars

\* C1 amended: when the candidate position of a PointMaze step is a wall
\* cell or outside the grid, the step leaves x, y and theta unchanged; the
\* updated heading is stored exactly on the steps that do not collide,
\* together with the candidate position.
C1_CollisionKeepsPose ==
    [][MStepTaken
        => /\ m_local'.theta = Mod2Pi(AddTheta(state.theta, m_local'.dtheta))
           /\ m_local'.wall_collision = is_colliding(m_local'.x, m_local'.y, "1")
           /\ m_local'.wall_collision => state' = state
           /\ ~m_local'.wall_collision
                => state' = [x |-> Float32(m_local'.x),
                             y |-> Float32(m_local'.y),
                             theta |-> Float32(m_local'.theta)]]_vars

\* C1 witness: a step with a turn and a move has collided with a wall.
C1_Witness ==
    /\ m_ret.kind = "step"
    /\ m_local.wall_collision
    /\ m_local.dtheta # Zero
    /\ m_local.ds # Zero
    /\ Float32(m_local.theta) # state.theta

\* C2 as stated: a GridWorld step whose destination lies outside the grid
\* returns reward -2 and leaves the player where it was.
C2_OffGridAlwaysMinus2 ==
    [][GStepTaken /\ DestOff(player, g_move'.action)
        => g_ret'.reward = -2 /\ player' = player]_vars

\* C2 amended: a GridWorld step whose destination lies outside the grid
\* leaves the player where it was and sets the movement reward to -2; the
\* returned reward is -2 unless the player's cell holds the key, and then it
\* is 10, or 50 when that cell holds the car as well.
C2_OffGridReward ==
    [][GStepTaken /\ DestOff(player, g_move'.action)
        => /\ player' = player
           /\ g_move'.reward = -2
           /\ g_ret'.reward = IF player = key
                              THEN (IF player = car THEN 50 ELSE 10)
                              ELSE -2]_vars

\* C2 witness: a step off the grid was made from the key's cell and has
\* returned 10.
C2_Witness ==
    /\ g_ret.kind = "step"
    /\ DestOff(g_move.from, g_move.action)
    /\ player = g_move.from
    /\ g_ret.reward = 10

\* C3 as stated: for every k the cells at positions 2k and 2k+1 (from 0) of
\* door_pairing are cells of the grid, and the door map links the first to
\* the second.
C3_PairingHoldsDoorEndpoints ==
    \A k \in 1..(Len(door_pairing) \div 2) :
        /\ door_pairing[2 * k - 1] \in Cells
        /\ door_pairing[2 * k] \in Cells
        /\ Linked(door_pairing[2 * k - 1], door_pairing[2 * k])

\* C4 as stated: a GridWorld step whose destination is inside the grid and in
\* the room of the player's cell moves the player to the destination.
C4_InRoomMoveSucceeds ==
    [][GStepTaken /\ ~DestOff(player, g_move'.action)
                  /\ Room(DestPos(player, g_move'.action)) = Room(player)
        => player' = DestPos(player, g_move'.action)]_vars

\* C5 as stated: no call of step raises an error, however many calls follow
\* the one that returned done.
C5_StepNeverRaises ==
    /\ d_ret.kind # "raised"
    /\ g_ret.kind # "raised"
    /\ m_ret.kind # "raised"

\* C6: the door map is symmetric: whenever b is in doors[a], b is a key of
\* the map and a is in doors[b].
C6_DoorsSymmetric ==
    \A a \in DOMAIN doors :
        \A i \in 1..Len(doors[a]) : Linked(doors[a][i], a)

\* C6 witness: after a step, in a maze where some cell is the endpoint of two
\* doors.
C6_Witness ==
    /\ g_ret.kind = "step"
    /\ \E a \in DOMAIN doors : Len(doors[a]) = 2

\* C7: the car is gone only if visited_key is true and the key is gone, and a
\* step returns a reward that includes the car's +40 only with visited_key
\* true and the car gone.
C7_CarNeedsKey ==
    /\ car = -1 => visited_key /\ key = -1
    /\ g_ret.kind = "step" /\ g_ret.reward >= 38 => visited_key /\ car = -1
    /\ visited_key <=> key = -1

\* C7 witness: the car was collected on a step after the key's.
C7_Witness ==
    /\ g_ret.kind = "step"
    /\ g_ret.reward = 40
    /\ g_ret.done
    /\ car = -1

\* C8: a DSDP step that ends in state 0 returns 1.0 (100 hundredths) if
\* current_state was 5 earlier since the reset and 0.01 (1 hundredth)
\* otherwise; a step that ends in another state returns 0.
C8_TerminalReward ==
    d_ret.kind = "step"
        => d_ret.reward = IF current_state = 0
                          THEN (IF d_ever5 THEN 100 ELSE 1)
                          ELSE 0

\* C8 witness: a step has returned to state 0 after state 5 was visited.
C8_Witness ==
    /\ d_ret.kind = "step"
    /\ current_state = 0
    /\ d_ever5
    /\ d_ret.reward = 100

\* C9: a GridWorld step takes the player into another room only if the door
\* map links the cell it left to the cell it entered; a step towards a cell
\* of another room that is not so linked leaves the player where it was and
\* sets the movement reward to -2.
C9_DoorsGateCrossings ==
    g_ret.kind = "step" =>
        /\ Room(player) # Room(g_move.from) => Linked(g_move.from, player)
        /\ ( /\ ~DestOff(g_move.from, g_move.action)
             /\ Room(DestPos(g_move.from, g_move.action)) # Room(g_move.from)
             /\ ~Linked(g_move.from, DestPos(g_move.from, g_move.action)) )
           => player = g_move.from /\ g_move.reward = -2

\* C9 witness: a step has taken the player through a door into another room.
C9_Witness ==
    /\ g_ret.kind = "step"
    /\ Room(player) # Room(g_move.from)
    /\ ROOM_SIZE > 1

\* C10: the counter is 0 after reset and every step adds 1 to it; a step
\* whose counter exceeds 2 * total_cells returns done, and a step whose
\* counter is at most 2 * total_cells returns done exactly when it picks up
\* the car.
C10_TimeLimit ==
    /\ [](g_ret.kind = "reset" => steps = 0)
    /\ [][g_ret'.kind = "step"
           => /\ steps' = steps + 1
              /\ steps' > 2 * num_positions => g_ret'.done
              /\ steps' <= 2 * num_positions
                   => (g_ret'.done <=> (car # -1 /\ car' = -1))]_vars

\* C10 witness: a step past the time limit has returned done with the car
\* still in the grid.
C10_Witness ==
    /\ g_ret.kind = "step"
    /\ steps = 2 * num_positions + 1
    /\ num_positions > 1
    /\ g_ret.done
    /\ car # -1

\* C15: every step of the Discrete Decision Process changes current_state by
\* exactly -1 or +1; action 0 decreases it by 1; action 1 increases it by 1
\* exactly when the draw is strictly greater than 0.5 and current_state is
\* not 5, and decreases it by 1 otherwise.
C15_Transitions ==
    [][DStepTaken
        => /\ current_state' \in {current_state - 1, current_state + 1}
           /\ d_in'.action = 0 => current_state' = current_state - 1
           /\ d_in'.action = 1
                => ( current_state' = current_state + 1
                       <=> (d_in'.roll > 50 /\ current_state # 5) )]_vars

\* C15 witness: action 1 with a draw of exactly 0.5 has moved left, into
\* state 0.
C15_Witness ==
    /\ d_ret.kind = "step"
    /\ d_in.action = 1
    /\ d_in.roll = 50
    /\ current_state = 0
    /\ d_ret.done

\* C18: after any sequence of reset and step calls current_state is in
\* 0 .. 5, and a step returns done exactly when current_state is 0 after it.
C18_StateRange ==
    /\ current_state \in 0..(TOTAL_STATES - 1)
    /\ d_ret.kind = "step" => (d_ret.done <=> current_state = 0)

\* C14: reset leaves a door_pairing of exactly 4 * (room_count - 1) *
\* room_count entries; with room_count = 1 the door map and door_pairing
\* are empty and every move whose destination is inside the grid is
\* accepted.
C14_DoorCount ==
    /\ Len(door_pairing) = 4 * (ROOM_COUNT - 1) * ROOM_COUNT
    /\ ROOM_COUNT = 1 => DOMAIN doors = {} /\ door_pairing = <<>>
    /\ (ROOM_COUNT = 1 /\ g_ret.kind = "step" /\ ~g_move.offgrid)
         => player = g_move.new_pos

\* C16: the reward of a GridWorld step is the movement reward (0 or -2),
\* overwritten to 10 if the player's cell is the key cell, then increased by
\* 40 if the player's cell is the car cell and the key has been visited; a
\* step onto a cell holding both key and car returns 50 with done, and the
\* only step rewards are -2, 0, 10, 40 and 50 (never 38).
C16_RewardOrder ==
    [][GStepTaken
        => LET onKey == (player' = key)
               r1 == IF onKey THEN 10 ELSE g_move'.reward
               onCar == (player' = car /\ (visited_key \/ onKey))
           IN /\ g_move'.reward \in {0, -2}
              /\ g_ret'.reward = (IF onCar THEN r1 + 40 ELSE r1)
              /\ g_ret'.reward \in {-2, 0, 10, 40, 50}
              /\ (onKey /\ player' = car)
                   => g_ret'.reward = 50 /\ g_ret'.done]_vars

\* C16 witness: a rejected move (movement reward -2) on a cell holding both
\* key and car has returned 50 with done.
C16_Witness ==
    /\ g_ret.kind = "step"
    /\ g_move.reward = -2
    /\ g_ret.reward = 50
    /\ g_ret.done
    /\ key = -1
    /\ car = -1

\* C20: between two resets the key and the car are each picked up on at
\* most one step: a step changes key_pos or car_pos only to -1, a position
\* that is -1 stays -1 and no later step returns its pickup reward,
\* visited_key never goes back to false, and player_pos is always a cell in
\* 0 .. total_cells - 1.
C20_PickupsOneShot ==
    /\ [](player \in Cells)
    /\ [][GStepTaken
           => /\ key' # key => key # -1 /\ key' = -1
              /\ car' # car => car # -1 /\ car' = -1
              /\ key = -1 => visited_key
              /\ visited_key => visited_key' /\ g_ret'.reward \notin {10, 50}
              /\ car = -1 => g_ret'.reward \notin {38, 40, 50}]_vars

\* C20 witness: a step taken after both pickups (after done) has returned
\* no pickup reward and left both positions at -1.
C20_Witness ==
    /\ g_ret.kind = "step"
    /\ key = -1
    /\ car = -1
    /\ visited_key
    /\ g_ret.reward \in {0, -2}
    /\ ~g_ret.done
    /\ num_positions > 1

\* C12: between two resets of PointMaze the goal bonus (reward -0.1 + 100)
\* is returned on exactly the first step after which the position lies in
\* the goal cell; every other step returns exactly -0.1, and a step returns
\* done exactly when the position after it lies in the goal cell.
C12_GoalBonusOnce ==
    [][MStepTaken
        => /\ m_ret'.done = InGoal(state')
           /\ m_ret'.reward
                = (IF InGoal(state') /\ ~m_ever_goal THEN -1 + 1000 ELSE -1)]_vars

\* C12 witness: a later step that ends in the goal cell has returned done
\* with reward -0.1.
C12_Witness ==
    /\ m_ret.kind = "step"
    /\ InGoal(state)
    /\ m_ret.done
    /\ m_ret.reward = -1
    /\ m_ever_goal

\* C13: after reset and after every step the stored theta
\* satisfies 0 <= theta < 2 pi.
C13_HeadingBelow2Pi == ~Less(state.theta, Zero) /\ Less(state.theta, TwoPi)

\* C17: steps_beyond_done is none after reset and on every step before the
\* position first lies in the goal cell, is set to 0 by the step that first
\* reaches the goal cell, and is increased by exactly 1 by every later step
\* until reset, whether or not the position is still in the goal cell.
C17_StepsBeyondDone ==
    /\ [](m_ret.kind = "reset" => steps_beyond_done = <<>>)
    /\ [][MStepTaken
           => steps_beyond_done'
                = (IF m_ever_goal THEN <<steps_beyond_done[1] + 1>>
                   ELSE IF InGoal(state') THEN <<0>>
                   ELSE <<>>)]_vars

\* C17 witness: a step taken after the goal was reached has left the goal
\* cell and the counter has gone up.
C17_Witness ==
    /\ m_ret.kind = "step"
    /\ m_ever_goal
    /\ ~InGoal(state)
    /\ steps_beyond_done # <<>>
    /\ steps_beyond_done # <<0>>

\* C19: after reset and after any sequence of steps the floored position is
\* a cell inside the grid that is not a wall cell, and a step changes the
\* position only to a candidate whose cell is inside the grid and not a wall.
C19_PositionNotInWall ==
    /\ ~is_colliding(state.x, state.y, "1")
    /\ (m_ret.kind = "step" /\ ~m_local.wall_collision)
         => ~is_colliding(m_local.x, m_local.y, "1")

\* C11: in each environment a reset after any sequence of steps (steps
\* after done included) leaves the state a constructor leaves: current_state
\* = 1 and visited_last = false (Discrete Decision Process); visited_key =
\* false, steps = 0, key and car on cells of the grid (not -1), and a door
\* map and a door_pairing built from empty for some door offsets
\* (GridWorld); steps_beyond_done = none, episode_steps = 0 and a pose
\* within the jitter of the start (PointMaze).
C11_ResetRoundTrip ==
    /\ d_ret.kind = "reset"
         => /\ current_state = 1
            /\ visited_last = FALSE
            /\ d_ret.obs = one_hot(1)
    /\ g_ret.kind = "reset"
         => /\ visited_key = FALSE
            /\ steps = 0
            /\ player \in Cells
            /\ key \in Cells
            /\ car \in Cells
            /\ Len(door_pairing) = 4 * (ROOM_COUNT - 1) * ROOM_COUNT
            /\ \E hx \in OffsetDraws, vy \in OffsetDraws :
                  BuildDoors(hx, vy)
                    = [doors |-> doors, pairing |-> door_pairing]
            /\ g_ret.obs = <<player, key, car>> \o door_pairing
    /\ m_ret.kind = "reset"
         => /\ steps_beyond_done = <<>>
            /\ episode_steps = 0
            /\ NearStart(state.x, starting_point.x)
            /\ NearStart(state.y, starting_point.y)
            /\ \/ NearStart(state.theta, starting_point.theta)
               \/ NearStart(state.theta, TwoPi)
            /\ ~Less(state.theta, Zero)
            /\ ~Less(Float32(TwoPi), state.theta)
            /\ m_ret.obs = normalised_state(state, 0)

\* C11 witness: each environment has been reset after an episode that went
\* on past done: the Discrete Decision Process after visiting state 5 and
\* stepping below state 0, PointMaze after steps taken beyond the goal, and
\* GridWorld with two rooms a side after the key and the car had been picked
\* up, with its doors built again.
C11_Witness ==
    /\ d_ret.kind = "reset"
    /\ d_cleared.visited_last
    /\ d_cleared.after_done
    /\ current_state = 1
    /\ ~visited_last
    /\ m_ret.kind = "reset"
    /\ m_cleared.stepped
    /\ m_cleared.after_done
    /\ steps_beyond_done = <<>>
    /\ episode_steps = 0
    /\ g_ret.kind = "reset"
    /\ g_cleared.visited_key
    /\ g_cleared.picked
    /\ g_cleared.stepped
    /\ ROOM_COUNT = 2
    /\ Len(door_pairing) = 8
    /\ key # -1
    /\ car # -1

\* The cells one step away from a cell of S, with S itself, and the cells
\* that some sequence of steps reaches from a cell of S.
Around(S) == S \cup {MoveTo(p, a) : p \in S, a \in 0..3}

RECURSIVE Reach(_)
Reach(S) == IF Around(S) = S THEN S ELSE Reach(Around(S))

\* C21: with room_size >= 3, in every maze produced by reset some sequence
\* of steps moves the player from every cell to every other cell of the
\* grid, and key and car lie on cells of the grid; a step moves the player
\* as these sequences assume, picks up the key on the key cell, and on the
\* car cell with the key visited picks up the car, adds 40 to the reward
\* (40, or 50 when the key is picked up in the same step) and returns done.
C21_Solvable ==
    /\ []((g_ret.kind = "reset" /\ ROOM_SIZE >= 3)
            => /\ \A c \in Cells : Reach({c}) = Cells
               /\ key \in Cells
               /\ car \in Cells
               /\ player \in Cells)
    /\ [][(GStepTaken /\ ROOM_SIZE >= 3)
           => /\ player' = MoveTo(player, g_move'.action)
              /\ UNCHANGED doors
              /\ player' = key => key' = -1 /\ visited_key'
              /\ (player' = car /\ visited_key')
                   => /\ car' = -1
                      /\ g_ret'.done
                      /\ g_ret'.reward = (IF player' = key THEN 50 ELSE 40)]_vars

\* C21 witness: on the grid of 2 x 2 rooms of size 3 the player has gone
\* through a door into another room, picked up the key there and then the
\* car, with reward 40 and done.
C21_Witness ==
    /\ g_ret.kind = "step"
    /\ ROOM_SIZE = 3
    /\ ROOM_COUNT = 2
    /\ steps = 2
    /\ g_move.reward = 0
    /\ Room(player) # Room(coord_to_pos(ROOM_SIZE - 1, 0))
    /\ visited_key
    /\ key = -1
    /\ car = -1
    /\ g_ret.reward = 40
    /\ g_ret.done

====
